---- MODULE Spec2Model ----
(***************************************************************************)
(* Model of the MetanearChat contract (src/src/lib.rs).                    *)
(*                                                                         *)
(* A Rust String is modelled as a sequence of one-character strings.  The  *)
(* host storage is one flat map from byte-string addresses to values; an   *)
(* address is a sequence whose elements stand for its byte segments (a tag *)
(* byte, a 32-byte hash, an index).  Every invocation runs against the     *)
(* storage as it was left by the previous one; an invocation that panics   *)
(* is rolled back by the host.                                             *)
(***************************************************************************)
EXTENDS Integers, Sequences, FiniteSets, TLC

VARIABLES
    storage,          \* the host's key-value storage of the contract account
    block_timestamp,  \* env::block_timestamp() of the next invocation
    last,             \* the latest invocation: entry point, outcome, result
    posted            \* history: channel ids of the successful post_message calls

vars == <<storage, block_timestamp, last, posted>>

(***************************************************************************)
(* Bound of the model: the number of messages posted.                      *)
(***************************************************************************)
MaxMsgs == 2

(***************************************************************************)
(* Strings used as inputs.                                                 *)
(***************************************************************************)
Str_ab == <<"a", "b">>
Str_abc == <<"a", "b", "c">>
Str_a == <<"a">>
Str_aB == <<"a", "B">>
Str_long == [i \in 1..65 |-> "a"]
Str_empty == <<>>
Str_c == <<"c">>
Str_bc == <<"b", "c">>
Str_g == <<"g">>
Str_h1 == <<"h", "1">>
Str_G == <<"G">>

CHAT_APP_ID == <<"c", "h", "a", "t">>

\* env::current_account_id(): the account the contract is deployed on.
current_account_id == "alice.near"

Callers == {"alice.near", "bob.near"}

Value1 == <<"v", "1">>
Value2 == <<"v", "2">>

ChannelIds == {Str_g, Str_h1, Str_G, Str_empty}

Timestamps == {1999999, 3000000}

(***************************************************************************)
(* Identifier validation.                                                  *)
(***************************************************************************)
LowerCase == {"a", "b", "c", "d", "e", "f", "g", "h", "i", "j", "k", "l", "m",
              "n", "o", "p", "q", "r", "s", "t", "u", "v", "w", "x", "y", "z"}
Digits == {"0", "1", "2", "3", "4", "5", "6", "7", "8", "9"}
Punctuation == {"-", "_", "."}

\* TRUE iff verify_app_id returns without panicking.
verify_app_id(app_id) ==
    /\ ~(Len(app_id) < 2 \/ Len(app_id) > 64)
    /\ \A i \in 1..Len(app_id) :
           app_id[i] \in LowerCase \cup Digits \cup Punctuation

\* TRUE iff verify_channel_id returns without panicking.
verify_channel_id(channel_id) ==
    /\ ~(Len(channel_id) < 1 \/ Len(channel_id) > 128)
    /\ \A i \in 1..Len(channel_id) :
           channel_id[i] \in LowerCase \cup Digits \cup Punctuation

(***************************************************************************)
(* Hashing and storage addresses.  env::sha256 is modelled as an injective *)
(* function from byte strings to one fixed-length segment.                 *)
(***************************************************************************)
sha256(bytes) == ToString(bytes)

app_key_concat(app_id, key) == <<"a", sha256(app_id \o key)>>

app_key_tag_c(app_id, key) == <<"c", sha256(app_id), sha256(key)>>

app_key(app_id, key) == <<"a", sha256(app_id), sha256(key)>>

messages_key_shared(channel_hash) == <<"m">>

messages_key_from_hash(channel_hash) == <<"m", channel_hash>>

STATE_KEY == <<"STATE">>

(***************************************************************************)
(* Host storage primitives.                                                *)
(***************************************************************************)
storage_has_key(st, addr) == addr \in DOMAIN st

storage_write(st, addr, val) ==
    [x \in DOMAIN st \cup {addr} |-> IF x = addr THEN val ELSE st[x]]

storage_remove(st, addr) == [x \in DOMAIN st \ {addr} |-> st[x]]

\* The running invocation: the storage it sees and the number of storage
\* writes it has issued so far.
Ctx(st, n) == [storage |-> st, writes |-> n]

CtxWrite(ctx, addr, val) ==
    Ctx(storage_write(ctx.storage, addr, val), ctx.writes + 1)

CtxRemove(ctx, addr) ==
    Ctx(storage_remove(ctx.storage, addr), ctx.writes + 1)

(***************************************************************************)
(* Option<Value> results.                                                  *)
(***************************************************************************)
None == [some |-> FALSE, value |-> <<>>]
Some(v) == [some |-> TRUE, value |-> v]

\* Outcome of one invocation.
Ok(ctx, ret) == [outcome |-> "ok", storage |-> ctx.storage,
                 writes |-> ctx.writes, ret |-> ret]
Abort(ctx) == [outcome |-> "abort", storage |-> ctx.storage,
               writes |-> ctx.writes, ret |-> None]

(***************************************************************************)
(* The contract struct and its persistence by the near_bindgen wrappers.   *)
(***************************************************************************)
state_exists(st) == storage_has_key(st, STATE_KEY)

state_read(st) == st[STATE_KEY]

NewContract == [channels |-> [prefix |-> "c", len |-> 0],
                total_num_messages |-> 0]

new_unguarded(st) == Ok(CtxWrite(Ctx(st, 0), STATE_KEY, NewContract), None)

\* #[init] new(): panics when a state already exists, else writes the
\* fresh struct.
new(st) ==
    IF state_exists(st)
    THEN Abort(Ctx(st, 0))
    ELSE Ok(CtxWrite(Ctx(st, 0), STATE_KEY, NewContract), None)

assert_self(caller) == current_account_id = caller

master_set_unchecked(st, caller, app_id, key, value) ==
    IF ~state_exists(st) THEN Abort(Ctx(st, 0))
    ELSE LET ctx == CtxWrite(Ctx(st, 0), app_key(app_id, key), value)
         IN  Ok(CtxWrite(ctx, STATE_KEY, state_read(st)), None)

master_set_swapped(st, caller, app_id, key, value) ==
    IF ~state_exists(st) THEN Abort(Ctx(st, 0))
    ELSE IF ~assert_self(caller) THEN Abort(Ctx(st, 0))
    ELSE LET ctx == CtxWrite(Ctx(st, 0), app_key(key, app_id), value)
         IN  Ok(CtxWrite(ctx, STATE_KEY, state_read(st)), None)

master_set_default(st, caller, app_id, key, value) ==
    IF ~assert_self(caller) THEN Abort(Ctx(st, 0))
    ELSE LET ctx == CtxWrite(Ctx(st, 0), app_key(app_id, key), value)
         IN  Ok(CtxWrite(ctx, STATE_KEY,
                         IF state_exists(st) THEN state_read(st)
                         ELSE NewContract), None)

master_set(st, caller, app_id, key, value) ==
    IF ~state_exists(st) THEN Abort(Ctx(st, 0))
    ELSE IF ~assert_self(caller) THEN Abort(Ctx(st, 0))
    ELSE LET ctx == CtxWrite(Ctx(st, 0), app_key(app_id, key), value)
         IN  Ok(CtxWrite(ctx, STATE_KEY, state_read(st)), None)

master_remove_strict(st, caller, app_id, key) ==
    IF ~state_exists(st) THEN Abort(Ctx(st, 0))
    ELSE IF ~assert_self(caller) THEN Abort(Ctx(st, 0))
    ELSE IF ~storage_has_key(st, app_key(app_id, key))
    THEN Abort(Ctx(st, 0))
    ELSE LET ctx == CtxRemove(Ctx(st, 0), app_key(app_id, key))
         IN  Ok(CtxWrite(ctx, STATE_KEY, state_read(st)), None)

master_remove(st, caller, app_id, key) ==
    IF ~state_exists(st) THEN Abort(Ctx(st, 0))
    ELSE IF ~assert_self(caller) THEN Abort(Ctx(st, 0))
    ELSE LET ctx == CtxRemove(Ctx(st, 0), app_key(app_id, key))
         IN  Ok(CtxWrite(ctx, STATE_KEY, state_read(st)), None)

(***************************************************************************)
(* near_sdk collections: a Map and a Vector keep their length in the       *)
(* struct that owns them and their elements in storage under their prefix. *)
(***************************************************************************)
MapKey(map, k) == <<map.prefix, k>>

MapContains(st, map, k) == storage_has_key(st, MapKey(map, k))

MapGet(st, map, k) == st[MapKey(map, k)]

\* Map::insert: returns the running invocation and the updated map handle.
MapInsert(ctx, map, k, v) ==
    [ctx |-> CtxWrite(ctx, MapKey(map, k), v),
     map |-> IF MapContains(ctx.storage, map, k)
             THEN map
             ELSE [map EXCEPT !.len = @ + 1]]

VectorKey(vec, index) == vec.prefix \o <<ToString(index)>>

VectorGet(st, vec, index) == st[VectorKey(vec, index)]

\* Vector::push: returns the running invocation and the updated handle.
VectorPush(ctx, vec, el) ==
    [ctx |-> CtxWrite(ctx, VectorKey(vec, vec.len), el),
     vec |-> [vec EXCEPT !.len = @ + 1]]

(***************************************************************************)
(* Channels.                                                               *)
(***************************************************************************)
Channel_new(channel_id) ==
    [channel_id |-> channel_id,
     messages |-> [prefix |-> messages_key_from_hash(sha256(channel_id)),
                   len |-> 0]]

lookup_channel_fresh(st, self, channel_id) == Channel_new(channel_id)

\* The channel stored under the hash of channel_id, or a fresh unsaved
\* one.  Only called after verify_channel_id has passed.
lookup_channel(st, self, channel_id) ==
    LET channel_hash == sha256(channel_id)
    IN  IF MapContains(st, self.channels, channel_hash)
        THEN MapGet(st, self.channels, channel_hash)
        ELSE Channel_new(channel_id)

\* get_channel: ok is FALSE when verify_channel_id panics.
get_channel(st, self, channel_id) ==
    IF ~verify_channel_id(channel_id)
    THEN [ok |-> FALSE, channel |-> Channel_new(channel_id)]
    ELSE [ok |-> TRUE, channel |-> lookup_channel(st, self, channel_id)]

message_time_raw(timestamp) == timestamp

message_time_rem(timestamp) == timestamp % 1000000

\* Message.time as add_message computes it.
message_time(timestamp) == timestamp \div 1000000

add_message_swapped(ctx, channel, sender_id, text, timestamp) ==
    LET pushed == VectorPush(ctx, channel.messages,
                             [time |-> message_time(timestamp),
                              sender_id |-> text,
                              text |-> sender_id])
    IN  [ctx |-> pushed.ctx,
         channel |-> [channel EXCEPT !.messages = pushed.vec]]

\* Channel::add_message: pushes onto the channel's vector.
add_message(ctx, channel, sender_id, text, timestamp) ==
    LET pushed == VectorPush(ctx, channel.messages,
                             [time |-> message_time(timestamp),
                              sender_id |-> sender_id,
                              text |-> text])
    IN  [ctx |-> pushed.ctx,
         channel |-> [channel EXCEPT !.messages = pushed.vec]]

save_channel_counting(ctx, self, channel) ==
    LET inserted == MapInsert(ctx, self.channels,
                              sha256(channel.channel_id), channel)
    IN  [ctx |-> inserted.ctx,
         self |-> [self EXCEPT !.channels.len = @ + 1]]

\* save_channel: returns the running invocation and the updated struct.
save_channel(ctx, self, channel) ==
    LET inserted == MapInsert(ctx, self.channels,
                              sha256(channel.channel_id), channel)
    IN  [ctx |-> inserted.ctx,
         self |-> [self EXCEPT !.channels = inserted.map]]

(***************************************************************************)
(* The JSON codec.  A JSON document is a String whose first element names  *)
(* the enum variant; numbers are written in decimal.                       *)
(***************************************************************************)
MaxNum == MaxMsgs + 1

\* Decimal u64 literals the decoder is given.
IsNumber(tok) == \E n \in 0..MaxNum : ToString(n) = tok
ParseNumber(tok) == CHOOSE n \in 0..MaxNum : ToString(n) = tok

ReqStatus == <<"{Status}">>
ReqChannelStatus(channel_id) == <<"{ChannelStatus}">> \o channel_id
ReqChannelMessages(channel_id, from_index, limit) ==
    <<"{ChannelMessages}", ToString(from_index), ToString(limit)>>
        \o channel_id

MsgChatMessage(channel_id, text) == <<"{ChatMessage}", text>> \o channel_id

NoRequest == [ok |-> FALSE, kind |-> "", channel_id |-> <<>>,
              from_index |-> 0, limit |-> 0]

\* serde_json::from_str::<GetRequest>: ok is FALSE when decoding fails.
parse_get_request(key) ==
    IF key = ReqStatus
    THEN [NoRequest EXCEPT !.ok = TRUE, !.kind = "Status"]
    ELSE IF Len(key) >= 1 /\ key[1] = "{ChannelStatus}"
    THEN [NoRequest EXCEPT !.ok = TRUE, !.kind = "ChannelStatus",
                           !.channel_id = Tail(key)]
    ELSE IF /\ Len(key) >= 3
            /\ key[1] = "{ChannelMessages}"
            /\ IsNumber(key[2])
            /\ IsNumber(key[3])
    THEN [NoRequest EXCEPT !.ok = TRUE, !.kind = "ChannelMessages",
                           !.channel_id = SubSeq(key, 4, Len(key)),
                           !.from_index = ParseNumber(key[2]),
                           !.limit = ParseNumber(key[3])]
    ELSE NoRequest

\* serde_json::from_str::<IncomingMessage>: ok is FALSE when decoding
\* fails.
parse_incoming_message(message) ==
    IF Len(message) >= 2 /\ message[1] = "{ChatMessage}"
    THEN [ok |-> TRUE, channel_id |-> SubSeq(message, 3, Len(message)),
          text |-> message[2]]
    ELSE [ok |-> FALSE, channel_id |-> <<>>, text |-> ""]

\* serde_json::to_string of the three responses.
StatusResponse(num_channels, total_num_messages) ==
    <<"{num_channels:", ToString(num_channels),
      "total_num_messages:", ToString(total_num_messages), "}">>

ChannelStatusResponse(num_messages) ==
    <<"{num_messages:", ToString(num_messages), "}">>

MessageJson(m) ==
    <<"{time:", ToString(m.time), "sender_id:", m.sender_id,
      "text:", m.text, "}">>

RECURSIVE MessagesJson(_)
MessagesJson(messages) ==
    IF messages = <<>> THEN <<>>
    ELSE MessageJson(Head(messages)) \o MessagesJson(Tail(messages))

ChannelMessagesResponse(messages) ==
    <<"{messages:[">> \o MessagesJson(messages) \o <<"]}">>

(***************************************************************************)
(* get.                                                                    *)
(***************************************************************************)
RECURSIVE collect_messages_inclusive(_, _, _, _, _)
collect_messages_inclusive(st, vec, index, limit, messages) ==
    IF Len(messages) <= limit /\ index < vec.len
    THEN collect_messages_inclusive(st, vec, index + 1, limit,
                                    Append(messages,
                                           VectorGet(st, vec, index)))
    ELSE messages

\* The while loop of the ChannelMessages request.
RECURSIVE collect_messages(_, _, _, _, _)
collect_messages(st, vec, index, limit, messages) ==
    IF Len(messages) < limit /\ index < vec.len
    THEN collect_messages(st, vec, index + 1, limit,
                          Append(messages, VectorGet(st, vec, index)))
    ELSE messages

get_chat_creating(st, self, key) ==
    LET request == parse_get_request(key)
        found == get_channel(st, self, request.channel_id)
    IN  IF ~request.ok THEN Abort(Ctx(st, 0))
        ELSE IF request.kind = "Status"
        THEN Ok(Ctx(st, 0),
                Some(StatusResponse(self.channels.len,
                                    self.total_num_messages)))
        ELSE IF ~found.ok THEN Abort(Ctx(st, 0))
        ELSE IF request.kind = "ChannelStatus"
        THEN Ok(save_channel(Ctx(st, 0), self, found.channel).ctx,
                Some(ChannelStatusResponse(found.channel.messages.len)))
        ELSE Ok(save_channel(Ctx(st, 0), self, found.channel).ctx,
                Some(ChannelMessagesResponse(
                         collect_messages(st, found.channel.messages,
                                          request.from_index,
                                          request.limit, <<>>))))

get_chat(st, self, key) ==
    LET request == parse_get_request(key)
        found == get_channel(st, self, request.channel_id)
    IN  IF ~request.ok THEN Abort(Ctx(st, 0))
        ELSE IF request.kind = "Status"
        THEN Ok(Ctx(st, 0),
                Some(StatusResponse(self.channels.len,
                                    self.total_num_messages)))
        ELSE IF ~found.ok THEN Abort(Ctx(st, 0))
        ELSE IF request.kind = "ChannelStatus"
        THEN Ok(Ctx(st, 0),
                Some(ChannelStatusResponse(found.channel.messages.len)))
        ELSE Ok(Ctx(st, 0),
                Some(ChannelMessagesResponse(
                         collect_messages(st, found.channel.messages,
                                          request.from_index,
                                          request.limit, <<>>))))

get_strict(st, app_id, key) ==
    IF ~state_exists(st) THEN Abort(Ctx(st, 0))
    ELSE IF ~verify_app_id(app_id) THEN Abort(Ctx(st, 0))
    ELSE IF app_id = CHAT_APP_ID THEN get_chat(st, state_read(st), key)
    ELSE IF storage_has_key(st, app_key(app_id, key))
    THEN Ok(Ctx(st, 0), Some(st[app_key(app_id, key)]))
    ELSE Abort(Ctx(st, 0))

get(st, app_id, key) ==
    IF ~state_exists(st) THEN Abort(Ctx(st, 0))
    ELSE IF ~verify_app_id(app_id) THEN Abort(Ctx(st, 0))
    ELSE IF app_id = CHAT_APP_ID THEN get_chat(st, state_read(st), key)
    ELSE IF storage_has_key(st, app_key(app_id, key))
    THEN Ok(Ctx(st, 0), Some(st[app_key(app_id, key)]))
    ELSE Ok(Ctx(st, 0), None)

(***************************************************************************)
(* post_message.                                                           *)
(***************************************************************************)
append_and_save_uncounted(st, self, sender_id, channel, text, timestamp) ==
    LET added == add_message(Ctx(st, 0), channel, sender_id, text, timestamp)
        saved == save_channel(added.ctx, self, added.channel)
    IN  Ok(CtxWrite(saved.ctx, STATE_KEY, saved.self), None)

\* The match arm of post_message, then the wrapper's state write.
append_and_save(st, self, sender_id, channel, text, timestamp) ==
    LET added == add_message(Ctx(st, 0), channel, sender_id, text, timestamp)
        saved == save_channel(added.ctx, self, added.channel)
        self2 == [saved.self EXCEPT !.total_num_messages = @ + 1]
    IN  Ok(CtxWrite(saved.ctx, STATE_KEY, self2), None)

post_message_verify_late(st, caller, timestamp, app_id, message) ==
    LET self == state_read(st)
        incoming == parse_incoming_message(message)
        channel == lookup_channel(st, self, incoming.channel_id)
        added == add_message(Ctx(st, 0), channel, caller, incoming.text,
                             timestamp)
    IN  IF ~state_exists(st) THEN Abort(Ctx(st, 0))
        ELSE IF ~verify_app_id(app_id) THEN Abort(Ctx(st, 0))
        ELSE IF app_id # CHAT_APP_ID THEN Abort(Ctx(st, 0))
        ELSE IF ~incoming.ok THEN Abort(Ctx(st, 0))
        ELSE IF ~verify_channel_id(incoming.channel_id)
        THEN Abort(added.ctx)
        ELSE append_and_save(st, self, caller, channel, incoming.text,
                             timestamp)

post_message(st, caller, timestamp, app_id, message) ==
    LET self == state_read(st)
        incoming == parse_incoming_message(message)
        found == get_channel(st, self, incoming.channel_id)
    IN  IF ~state_exists(st) THEN Abort(Ctx(st, 0))
        ELSE IF ~verify_app_id(app_id) THEN Abort(Ctx(st, 0))
        ELSE IF app_id # CHAT_APP_ID THEN Abort(Ctx(st, 0))
        ELSE IF ~incoming.ok THEN Abort(Ctx(st, 0))
        ELSE IF ~found.ok THEN Abort(Ctx(st, 0))
        ELSE append_and_save(st, self, caller, found.channel,
                             incoming.text, timestamp)

(***************************************************************************)
(* Inputs.                                                                 *)
(***************************************************************************)
\* (tenant id, key) pairs the privileged operations are called with.
StoreCalls ==
    {<<Str_ab, Str_c>>, <<Str_a, Str_bc>>, <<CHAT_APP_ID, ReqStatus>>}

\* (tenant id, key, value) triples master_set is called with.
SetCalls ==
    {<<Str_ab, Str_c, Value1>>, <<Str_ab, Str_c, Value2>>,
     <<Str_a, Str_bc, Value2>>, <<CHAT_APP_ID, ReqStatus, Value1>>}

\* Requests sent to the chat tenant.
ChatKeys ==
    {ReqStatus, Str_c, <<"{ChannelMessages}", "x", "1", "g">>}
    \cup {ReqChannelStatus(c) : c \in ChannelIds}
    \cup {ReqChannelMessages(Str_g, 0, MaxNum),
          ReqChannelMessages(Str_g, 1, 1),
          ReqChannelMessages(Str_g, 0, 0),
          ReqChannelMessages(Str_g, MaxNum, 1)}
    \cup {ReqChannelMessages(Str_h1, 0, 1), ReqChannelMessages(Str_G, 0, 1)}

\* (tenant id, key) pairs get is called with.
GetCalls ==
    StoreCalls
    \cup {<<Str_aB, Str_c>>, <<Str_long, Str_c>>, <<Str_abc, Str_empty>>}
    \cup {<<CHAT_APP_ID, k>> : k \in ChatKeys}

\* (tenant id, message) pairs post_message is called with.
PostCalls ==
    {<<CHAT_APP_ID, MsgChatMessage(Str_g, "hi")>>,
     <<CHAT_APP_ID, MsgChatMessage(Str_h1, "yo")>>,
     <<CHAT_APP_ID, MsgChatMessage(Str_G, "hi")>>,
     <<CHAT_APP_ID, MsgChatMessage(Str_empty, "hi")>>,
     <<CHAT_APP_ID, ReqStatus>>,
     <<Str_ab, MsgChatMessage(Str_g, "hi")>>,
     <<Str_aB, MsgChatMessage(Str_g, "hi")>>}

(***************************************************************************)
(* The state machine.  The host runs one invocation at a time and keeps    *)
(* the storage of an invocation only when it did not panic.                *)
(***************************************************************************)
NoCall == [op |-> "none", outcome |-> "ok", writes |-> 0, ret |-> None]

Invoke(op, result) ==
    /\ storage' = IF result.outcome = "ok" THEN result.storage ELSE storage
    /\ last' = [op |-> op, outcome |-> result.outcome,
                writes |-> result.writes, ret |-> result.ret]
    /\ UNCHANGED block_timestamp

\* An invocation of an entry point other than post_message.
InvokeOther(op, result) == Invoke(op, result) /\ UNCHANGED posted

GenericEntries(st) == {addr \in DOMAIN st : addr[1] = "a"}

TotalMessages(st) ==
    IF state_exists(st) THEN state_read(st).total_num_messages ELSE 0

Init ==
    /\ storage = <<>>
    /\ block_timestamp \in Timestamps
    /\ \A t \in Timestamps : block_timestamp <= t
    /\ last = NoCall
    /\ posted = {}

New == InvokeOther("new", new(storage))

MasterSet(caller, app_id, key, value) ==
    InvokeOther("master_set",
                master_set(storage, caller, app_id, key, value))

MasterRemove(caller, app_id, key) ==
    InvokeOther("master_remove", master_remove(storage, caller, app_id, key))

Get(app_id, key) == InvokeOther("get", get(storage, app_id, key))

PostMessage(caller, app_id, message) ==
    LET result == post_message(storage, caller, block_timestamp,
                               app_id, message)
    IN  /\ TotalMessages(result.storage) <= MaxMsgs
        /\ Invoke("post_message", result)
        /\ posted' = IF result.outcome = "ok"
                     THEN posted \cup
                              {parse_incoming_message(message).channel_id}
                     ELSE posted

\* The host's clock moves on between invocations.
Tick ==
    /\ \E t \in Timestamps : t > block_timestamp /\ block_timestamp' = t
    /\ UNCHANGED <<storage, last, posted>>

Next ==
    \/ New
    \/ \E caller \in Callers, call \in SetCalls :
          MasterSet(caller, call[1], call[2], call[3])
    \/ \E caller \in Callers, call \in StoreCalls :
          MasterRemove(caller, call[1], call[2])
    \/ \E call \in GetCalls : Get(call[1], call[2])
    \/ \E caller \in Callers, call \in PostCalls :
          PostMessage(caller, call[1], call[2])
    \/ Tick

Spec == Init /\ [][Next]_vars

(***************************************************************************)
(* Views of the storage used by the properties.                            *)
(***************************************************************************)
Min(a, b) == IF a < b THEN a ELSE b

\* Addresses of the entries of the channel collection.
ChannelEntries(st) == {addr \in DOMAIN st : addr[1] = "c"}

\* The messages of a stored channel, in index order.
ChannelMessages(st, channel) ==
    [i \in 1..channel.messages.len |->
         st[channel.messages.prefix \o <<ToString(i - 1)>>]]

RECURSIVE SumLen(_, _)
SumLen(st, addrs) ==
    IF addrs = {} THEN 0
    ELSE LET a == CHOOSE x \in addrs : TRUE
         IN  st[a].messages.len + SumLen(st, addrs \ {a})

ValidChannelIds == {c \in ChannelIds : verify_channel_id(c)}

\* The stored channel of a valid channel id, or the empty one.
ChannelOf(st, channel_id) ==
    IF <<"c", sha256(channel_id)>> \in DOMAIN st
    THEN st[<<"c", sha256(channel_id)>>]
    ELSE Channel_new(channel_id)

(***************************************************************************)
(* C1 as stated: for every tenant id that passes verify_app_id, get(t, k)  *)
(* right after a successful master_set(t, k, v) returns v, and right after *)
(* a successful master_remove(t, k) returns None.                          *)
(***************************************************************************)
C1_SetGetAnyValidTenant ==
    [][/\ \A call \in SetCalls :
            (/\ last'.op = "master_set"
             /\ last'.outcome = "ok"
             /\ verify_app_id(call[1])
             /\ MasterSet(current_account_id, call[1], call[2], call[3]))
            => get(storage', call[1], call[2]).ret = Some(call[3])
       /\ \A call \in StoreCalls :
            (/\ last'.op = "master_remove"
             /\ last'.outcome = "ok"
             /\ verify_app_id(call[1])
             /\ MasterRemove(current_account_id, call[1], call[2]))
            => /\ get(storage', call[1], call[2]).outcome = "ok"
               /\ get(storage', call[1], call[2]).ret = None]_vars

(***************************************************************************)
(* C1 amended: for every tenant id that passes verify_app_id and is not    *)
(* "chat", get(t, k) right after a successful master_set(t, k, v) returns  *)
(* v, and right after a successful master_remove(t, k) returns None.       *)
(***************************************************************************)
C1_SetGetRemove ==
    [][/\ \A call \in SetCalls :
            (/\ last'.op = "master_set"
             /\ last'.outcome = "ok"
             /\ verify_app_id(call[1])
             /\ call[1] # CHAT_APP_ID
             /\ MasterSet(current_account_id, call[1], call[2], call[3]))
            => /\ get(storage', call[1], call[2]).outcome = "ok"
               /\ get(storage', call[1], call[2]).ret = Some(call[3])
       /\ \A call \in StoreCalls :
            (/\ last'.op = "master_remove"
             /\ last'.outcome = "ok"
             /\ verify_app_id(call[1])
             /\ call[1] # CHAT_APP_ID
             /\ MasterRemove(current_account_id, call[1], call[2]))
            => /\ get(storage', call[1], call[2]).outcome = "ok"
               /\ get(storage', call[1], call[2]).ret = None]_vars

C1_Witness ==
    /\ last.op = "master_set"
    /\ last.outcome = "ok"
    /\ get(storage, Str_ab, Str_c).ret = Some(Value1)
    /\ get(storage, Str_abc, Str_empty).ret = None
    /\ get(storage, Str_abc, Str_empty).outcome = "ok"

(***************************************************************************)
(* C2: whenever the contract is initialized, total_num_messages equals the *)
(* sum of the message counts of the channels in the channel collection.    *)
(***************************************************************************)
C2_TotalIsSum ==
    state_exists(storage) =>
        state_read(storage).total_num_messages
            = SumLen(storage, ChannelEntries(storage))

C2_Witness ==
    /\ state_exists(storage)
    /\ state_read(storage).total_num_messages = 2
    /\ ChannelOf(storage, Str_g).messages.len = 1
    /\ ChannelOf(storage, Str_h1).messages.len = 1

(***************************************************************************)
(* C3: channels are append-only.  In every step, every stored channel is   *)
(* still stored, its length has not decreased, and each message it held    *)
(* is the same message at the same index.                                  *)
(***************************************************************************)
C3_AppendOnly ==
    [][\A addr \in ChannelEntries(storage) :
           /\ addr \in ChannelEntries(storage')
           /\ storage'[addr].messages.len >= storage[addr].messages.len
           /\ \A i \in 1..storage[addr].messages.len :
                  ChannelMessages(storage', storage'[addr])[i]
                      = ChannelMessages(storage, storage[addr])[i]]_vars

C3_Witness ==
    /\ last.op = "post_message"
    /\ last.outcome = "ok"
    /\ ChannelOf(storage, Str_g).messages.len = 2
    /\ ChannelMessages(storage, ChannelOf(storage, Str_g))[1]
           # ChannelMessages(storage, ChannelOf(storage, Str_g))[2]

(***************************************************************************)
(* C4: for a channel holding N messages, ChannelMessages with from_index k *)
(* and limit m returns the messages at indices k .. k + min(m, N-k) - 1 in *)
(* post order when k < N, and the empty list when k >= N or m = 0.         *)
(***************************************************************************)
ExpectedSlice(messages, k, m) ==
    IF k < Len(messages)
    THEN [j \in 1..Min(m, Len(messages) - k) |-> messages[k + j]]
    ELSE <<>>

C4_Pagination ==
    state_exists(storage) =>
        \A c \in ValidChannelIds, k \in 0..MaxNum, m \in 0..MaxNum :
            LET result == get(storage, CHAT_APP_ID,
                              ReqChannelMessages(c, k, m))
                stored == ChannelMessages(storage, ChannelOf(storage, c))
            IN  /\ result.outcome = "ok"
                /\ result.ret = Some(ChannelMessagesResponse(
                                         ExpectedSlice(stored, k, m)))

C4_Witness ==
    /\ last.op = "get"
    /\ last.outcome = "ok"
    /\ ChannelOf(storage, Str_g).messages.len = 2
    /\ last.ret = Some(ChannelMessagesResponse(
                      <<ChannelMessages(storage,
                                        ChannelOf(storage, Str_g))[2]>>))

(***************************************************************************)
(* C5: master_set and master_remove called by an account other than the    *)
(* contract's own account abort and leave the storage unchanged, whatever  *)
(* calls came before.                                                      *)
(***************************************************************************)
C5_NonSelfRejected ==
    [][/\ \A caller \in Callers \ {current_account_id},
             call \in SetCalls :
            (/\ last'.op = "master_set"
             /\ MasterSet(caller, call[1], call[2], call[3]))
            => last'.outcome = "abort" /\ storage' = storage
       /\ \A caller \in Callers \ {current_account_id},
             call \in StoreCalls :
            (/\ last'.op = "master_remove"
             /\ MasterRemove(caller, call[1], call[2]))
            => last'.outcome = "abort" /\ storage' = storage]_vars

C5_Witness ==
    /\ last.op = "master_set"
    /\ last.outcome = "abort"
    /\ GenericEntries(storage) # {}

(***************************************************************************)
(* C6 as stated: tenant ids are validated in every operation that takes    *)
(* one, so no generic-store entry ever exists under a tenant id that fails *)
(* verify_app_id.                                                          *)
(***************************************************************************)
C6_NoEntryUnderInvalidTenant ==
    \A addr \in GenericEntries(storage) :
        \E call \in StoreCalls :
            /\ verify_app_id(call[1])
            /\ addr = app_key(call[1], call[2])

(***************************************************************************)
(* C7: a post_message call with a tenant id that fails verify_app_id, a    *)
(* tenant id other than "chat", a message that does not decode or a        *)
(* channel id that fails verify_channel_id aborts, and every post_message  *)
(* call that aborts has issued no storage write and leaves the storage as  *)
(* it was.                                                                 *)
(***************************************************************************)
RejectedPost(app_id, message) ==
    \/ ~verify_app_id(app_id)
    \/ app_id # CHAT_APP_ID
    \/ ~parse_incoming_message(message).ok
    \/ ~verify_channel_id(parse_incoming_message(message).channel_id)

C7_AbortedPostNoEffect ==
    [][/\ (last'.op = "post_message" /\ last'.outcome = "abort")
           => /\ last'.writes = 0
              /\ storage' = storage
              /\ posted' = posted
       /\ \A caller \in Callers, call \in PostCalls :
              (/\ last'.op = "post_message"
               /\ last'.outcome = "ok"
               /\ RejectedPost(call[1], call[2]))
              => ~PostMessage(caller, call[1], call[2])]_vars

C7_Witness ==
    /\ last.op = "post_message"
    /\ last.outcome = "abort"
    /\ last.writes = 0
    /\ TotalMessages(storage) = 1

(***************************************************************************)
(* C8: a successful master_set or master_remove on (t, k) leaves the       *)
(* storage entry of every other pair (t', k') and the result of            *)
(* get(t', k') as they were, also for pairs whose concatenations coincide. *)
(***************************************************************************)
GetOutcome(st, call) ==
    LET result == get(st, call[1], call[2])
    IN  <<result.outcome, result.ret>>

\* The pairs whose entry and get result are compared across a privileged
\* call on another pair.
FramePairs ==
    StoreCalls
    \cup {<<Str_abc, Str_empty>>, <<Str_aB, Str_c>>,
          <<CHAT_APP_ID, ReqChannelStatus(Str_g)>>,
          <<CHAT_APP_ID, ReqChannelMessages(Str_g, 0, MaxNum)>>}

EntryOf(st, call) ==
    IF storage_has_key(st, app_key(call[1], call[2]))
    THEN Some(st[app_key(call[1], call[2])])
    ELSE None

C8_OtherPairsUntouched ==
    [][\A call \in StoreCalls :
           (/\ last'.op \in {"master_set", "master_remove"}
            /\ last'.outcome = "ok"
            /\ \/ \E set \in SetCalls :
                     /\ <<set[1], set[2]>> = call
                     /\ MasterSet(current_account_id, set[1], set[2],
                                  set[3])
               \/ MasterRemove(current_account_id, call[1], call[2]))
           => \A other \in FramePairs \ {call} :
                  /\ EntryOf(storage', other) = EntryOf(storage, other)
                  /\ GetOutcome(storage', other)
                         = GetOutcome(storage, other)]_vars

C8_Witness ==
    /\ last.op = "master_set"
    /\ last.outcome = "ok"
    /\ EntryOf(storage, <<Str_ab, Str_c>>) = Some(Value1)
    /\ EntryOf(storage, <<Str_a, Str_bc>>) = Some(Value2)
    /\ EntryOf(storage, <<Str_abc, Str_empty>>) = None

(***************************************************************************)
(* C9: whenever the contract is initialized, the num_channels that Status  *)
(* reports is the number of distinct channel ids that have had a           *)
(* successful post_message, which is the size of the channel collection.   *)
(***************************************************************************)
C9_NumChannels ==
    state_exists(storage) =>
        /\ get(storage, CHAT_APP_ID, ReqStatus).ret
               = Some(StatusResponse(Cardinality(posted),
                                     TotalMessages(storage)))
        /\ Cardinality(ChannelEntries(storage)) = Cardinality(posted)
        /\ \A c \in posted :
               <<"c", sha256(c)>> \in ChannelEntries(storage)

C9_Witness ==
    /\ last.op = "post_message"
    /\ last.outcome = "ok"
    /\ posted = {Str_g}
    /\ TotalMessages(storage) = 2
    /\ state_read(storage).channels.len = 1

(***************************************************************************)
(* C10: a successful post_message("chat", ChatMessage{channel_id, text})   *)
(* appends exactly one message to that channel, at the index equal to the  *)
(* channel's previous length, with the caller as sender_id and the posted  *)
(* text; the channel's length and total_num_messages each grow by one.     *)
(***************************************************************************)
C10_PostAppendsOne ==
    [][\A caller \in Callers, c \in ChannelIds, text \in {"hi", "yo"} :
           (/\ last'.op = "post_message"
            /\ last'.outcome = "ok"
            /\ PostMessage(caller, CHAT_APP_ID, MsgChatMessage(c, text)))
           => LET before == ChannelMessages(storage, ChannelOf(storage, c))
                  after == ChannelMessages(storage', ChannelOf(storage', c))
              IN  /\ Len(after) = Len(before) + 1
                  /\ SubSeq(after, 1, Len(before)) = before
                  /\ after[Len(before) + 1].sender_id = caller
                  /\ after[Len(before) + 1].text = text
                  /\ TotalMessages(storage') = TotalMessages(storage) + 1
       ]_vars

C10_Witness ==
    /\ last.op = "post_message"
    /\ last.outcome = "ok"
    /\ Len(ChannelMessages(storage, ChannelOf(storage, Str_g))) = 2
    /\ ChannelMessages(storage, ChannelOf(storage, Str_g))[1].sender_id
           = "alice.near"
    /\ ChannelMessages(storage, ChannelOf(storage, Str_g))[2].sender_id
           = "bob.near"
    /\ ChannelMessages(storage, ChannelOf(storage, Str_g))[2].text = "hi"

(***************************************************************************)
(* C11: get never changes state.  Every get call, whatever the request,    *)
(* issues no storage write and leaves the storage as it was, so a request  *)
(* about a channel that was never written does not create it.              *)
(***************************************************************************)
C11_GetChangesNothing ==
    [][(last'.op = "get" /\ UNCHANGED block_timestamp)
           => /\ last'.writes = 0
              /\ storage' = storage
              /\ posted' = posted]_vars

C11_Witness ==
    /\ last.op = "get"
    /\ last.outcome = "ok"
    /\ last.ret = Some(ChannelStatusResponse(0))
    /\ state_exists(storage)
    /\ ChannelEntries(storage) = {}
    /\ state_read(storage).channels.len = 0

(***************************************************************************)
(* C12: on an initialized contract, get on a valid tenant other than       *)
(* "chat" and a key that holds no entry returns None without aborting, and *)
(* ChannelStatus and ChannelMessages on a valid channel id that never      *)
(* received a message return num_messages = 0 and an empty list without    *)
(* aborting.                                                               *)
(***************************************************************************)
C12_NotFoundIsNormal ==
    state_exists(storage) =>
        /\ \A call \in GetCalls :
               (/\ verify_app_id(call[1])
                /\ call[1] # CHAT_APP_ID
                /\ EntryOf(storage, call) = None)
               => GetOutcome(storage, call) = <<"ok", None>>
        /\ \A c \in ValidChannelIds \ posted :
               /\ GetOutcome(storage, <<CHAT_APP_ID, ReqChannelStatus(c)>>)
                      = <<"ok", Some(ChannelStatusResponse(0))>>
               /\ \A k \in 0..MaxNum, m \in 0..MaxNum :
                      GetOutcome(storage,
                                 <<CHAT_APP_ID, ReqChannelMessages(c, k, m)>>)
                          = <<"ok", Some(ChannelMessagesResponse(<<>>))>>

C12_Witness ==
    /\ last.op = "get"
    /\ last.outcome = "ok"
    /\ last.ret = None
    /\ EntryOf(storage, <<Str_ab, Str_c>>) = None
    /\ EntryOf(storage, <<Str_a, Str_bc>>) = Some(Value2)

(***************************************************************************)
(* C13: new succeeds only when no state exists and then leaves a contract  *)
(* with zero channels and total_num_messages = 0; a new called when a      *)
(* state exists aborts and leaves the storage as it was.                   *)
(***************************************************************************)
C13_InitializeOnce ==
    [][New => IF state_exists(storage)
              THEN last'.outcome = "abort" /\ storage' = storage
              ELSE /\ last'.outcome = "ok"
                   /\ state_read(storage').channels.len = 0
                   /\ state_read(storage').total_num_messages = 0
                   /\ ChannelEntries(storage') = {}
                   /\ GetOutcome(storage', <<CHAT_APP_ID, ReqStatus>>)
                          = <<"ok", Some(StatusResponse(0, 0))>>]_vars

C13_Witness ==
    /\ last.op = "new"
    /\ last.outcome = "abort"
    /\ TotalMessages(storage) = 2
    /\ Cardinality(ChannelEntries(storage)) = 2

(***************************************************************************)
(* C14: on an initialized contract, master_remove by the contract's own    *)
(* account succeeds whether or not the entry exists; it leaves the storage *)
(* unchanged when it does not, deletes exactly that entry when it does,    *)
(* and a second master_remove of the same pair changes nothing more.       *)
(***************************************************************************)
C14_RemoveIdempotent ==
    [][\A call \in StoreCalls :
           (/\ last'.op = "master_remove"
            /\ state_exists(storage)
            /\ MasterRemove(current_account_id, call[1], call[2]))
           => /\ last'.outcome = "ok"
              /\ DOMAIN storage'
                     = DOMAIN storage \ {app_key(call[1], call[2])}
              /\ \A addr \in DOMAIN storage' : storage'[addr] = storage[addr]
              /\ EntryOf(storage, call) = None => storage' = storage
              /\ master_remove(storage', current_account_id,
                               call[1], call[2]).outcome = "ok"
              /\ master_remove(storage', current_account_id,
                               call[1], call[2]).storage = storage']_vars

C14_Witness ==
    /\ last.op = "master_remove"
    /\ last.outcome = "ok"
    /\ EntryOf(storage, <<Str_ab, Str_c>>) = None
    /\ EntryOf(storage, <<Str_a, Str_bc>>) = Some(Value2)
    /\ EntryOf(storage, <<CHAT_APP_ID, ReqStatus>>) = Some(Value1)

(***************************************************************************)
(* Views of one step used by the properties below.                         *)
(***************************************************************************)
\* The step is a successful post_message.
PostedOk ==
    /\ last'.op = "post_message"
    /\ last'.outcome = "ok"
    /\ UNCHANGED block_timestamp
    /\ TotalMessages(storage') = TotalMessages(storage) + 1

\* The step is a successful master_set or master_remove.
PrivilegedOk ==
    /\ last'.op \in {"master_set", "master_remove"}
    /\ last'.outcome = "ok"
    /\ UNCHANGED block_timestamp

MessagesOf(st, channel_id) == ChannelMessages(st, ChannelOf(st, channel_id))

\* The part of the storage outside the generic store.
NonGeneric(st) == [addr \in DOMAIN st \ GenericEntries(st) |-> st[addr]]

\* The generic store.
Generic(st) == [addr \in GenericEntries(st) |-> st[addr]]

(***************************************************************************)
(* C15: the time of an appended message is the block timestamp of the      *)
(* posting invocation, in nanoseconds, divided by 1000000 and rounded      *)
(* down.                                                                   *)
(***************************************************************************)
\* The largest time whose nanoseconds fit the integers of the model.
MaxMillis == 2147

C16_StoreAndChatSeparate ==
    [][/\ PrivilegedOk
           => /\ NonGeneric(storage') = NonGeneric(storage)
              /\ \A c \in ValidChannelIds :
                     MessagesOf(storage', c) = MessagesOf(storage, c)
              /\ GetOutcome(storage', <<CHAT_APP_ID, ReqStatus>>)
                     = GetOutcome(storage, <<CHAT_APP_ID, ReqStatus>>)
       /\ PostedOk
           => /\ Generic(storage') = Generic(storage)
              /\ \A call \in FramePairs :
                     call[1] # CHAT_APP_ID
                     => GetOutcome(storage', call)
                            = GetOutcome(storage, call)]_vars

C16_Witness ==
    /\ last.op = "master_set"
    /\ last.outcome = "ok"
    /\ EntryOf(storage, <<CHAT_APP_ID, ReqStatus>>) = Some(Value1)
    /\ Len(MessagesOf(storage, Str_g)) = 1
    /\ Len(MessagesOf(storage, Str_h1)) = 1

(***************************************************************************)
(* C17: a successful post_message to a channel leaves the stored channel   *)
(* and the messages of every other channel as they were.                   *)
(***************************************************************************)
C17_OtherChannelsUntouched ==
    [][PostedOk =>
           \A c \in ValidChannelIds :
               Len(MessagesOf(storage', c)) # Len(MessagesOf(storage, c))
               => \A other \in ValidChannelIds \ {c} :
                      /\ ChannelOf(storage', other) = ChannelOf(storage, other)
                      /\ MessagesOf(storage', other)
                             = MessagesOf(storage, other)]_vars

C17_Witness ==
    /\ last.op = "post_message"
    /\ last.outcome = "ok"
    /\ Len(MessagesOf(storage, Str_g)) = 1
    /\ Len(MessagesOf(storage, Str_h1)) = 1
    /\ MessagesOf(storage, Str_g)[1].text = "hi"
    /\ MessagesOf(storage, Str_h1)[1].text = "yo"

(***************************************************************************)
(* C18: while no state has been written by new, every master_set,          *)
(* master_remove, get and post_message aborts and the storage stays empty. *)
(***************************************************************************)
C18_NothingBeforeInitialize ==
    [][(/\ ~state_exists(storage)
        /\ UNCHANGED block_timestamp
        /\ last'.op \in {"master_set", "master_remove", "get",
                         "post_message"})
       => /\ last'.outcome = "abort"
          /\ last'.writes = 0
          /\ storage = <<>>
          /\ storage' = storage
          /\ posted' = {}]_vars

C18_Witness ==
    /\ ~state_exists(storage)
    /\ last.op = "master_set"
    /\ last.outcome = "abort"

(***************************************************************************)
(* C19: with a block timestamp that never decreases, the times of the      *)
(* messages of every channel are non-decreasing in index order.            *)
(***************************************************************************)
C19_TimesNonDecreasing ==
    \A c \in ValidChannelIds :
        \A i, j \in 1..Len(MessagesOf(storage, c)) :
            i < j => MessagesOf(storage, c)[i].time
                         <= MessagesOf(storage, c)[j].time

C19_Witness ==
    /\ Len(MessagesOf(storage, Str_g)) = 2
    /\ MessagesOf(storage, Str_g)[1].time = 1
    /\ MessagesOf(storage, Str_g)[2].time = 3

====
